---- MODULE Spec2Model ----
(***************************************************************************)
(* Model of the voice transport engine of gamechat                         *)
(* (src/network/src/voice.rs, VoiceManager).                               *)
(*                                                                         *)
(* Execution contexts:                                                     *)
(*   - caller contexts invoking start_audio_loop / stop / set_target,      *)
(*   - one worker thread per successful start (std::thread::spawn), which  *)
(*     sets up the cpal streams and then runs the tokio select! loop,      *)
(*   - the cpal input callback of every live input stream,                 *)
(*   - the network, delivering datagrams (or socket errors) to the socket. *)
(***************************************************************************)
EXTENDS Integers, Sequences, FiniteSets, TLC

\* ------------------------------------------------------------- bounds
NumCallers == 2      \* caller contexts
MaxWorkers == 2      \* worker threads alive at the same time
MaxCaptures == 1      \* input-callback invocations in one behaviour of Spec
MaxDataCaptures == 2  \* input-callback invocations in one behaviour of SpecData
MaxInbound == 1      \* datagrams / socket errors arriving in one behaviour
MaxLoopCaptures == 2 \* input-callback invocations in one behaviour of SpecLoop
MaxQueueCaptures == 4 \* input-callback invocations in one behaviour of SpecQueue
MaxRecv == 2         \* datagrams / socket errors arriving in one behaviour of SpecRecv

Callers == 1..NumCallers
Workers == 1..MaxWorkers

\* Option<SocketAddr>: None, or one of the peer addresses a caller may pass.
None == "None"
Addrs == {"addrA", "addrB"}

\* An f32 sample is its 32-bit pattern, written as four bytes, most significant
\* first: <<63, 128, 0, 0>> is 1.0 and <<192, 0, 0, 1>> is a negative value.
\* What one invocation of the input callback may be handed (data: &[f32]):
CaptureFrames == {<<>>, <<<<63, 128, 0, 0>>>>, <<<<192, 0, 0, 1>>, <<63, 128, 0, 0>>>>}
\* let mut buf = [0u8; 4096]
RecvBufSize == 4096
\* Payloads the network may deliver (any byte string, not only whole samples).
InboundPayloads == {<<1, 2, 3, 4, 5>>}
\* Devices as the audio host enumerates them: d.name() is Ok(name) or an Err.
Devices == {[named |-> TRUE, name |-> "Microphone"],
            [named |-> TRUE, name |-> "Headset"],
            [named |-> FALSE, name |-> ""]}
MaxDevices == 2
\* host.input_devices() / host.output_devices(): Err, or Ok with the devices.
HostErr == [ok |-> FALSE, devices |-> <<>>]
HostAnswers ==
    {HostErr} \cup
    UNION {{[ok |-> TRUE, devices |-> ds] : ds \in [1..n -> Devices]} :
              n \in 0..MaxDevices}
\* No get_*_devices call made yet.
NoList == [fn |-> "none", names |-> <<>>]

\* The users shown in the voice channel before the local user joins.
InitialVoiceUsers == <<"xGamer42", "PixelKnight">>
\* Rows the user list may reach in a behaviour of SpecToggle.
MaxVoiceUsers == 4

\* Sessions: user_id and access_token stand for the five String fields.
UserIds == {"@a:hs", "@b:hs", "@c:hs"}
Tokens == {"t1", "t2"}
Sessions == [user_id : UserIds, access_token : Tokens]
\* The sessions file, with the history of the last call: what it was (op, its
\* argument, whether it returned Ok) and the sessions the file held before it.
NoFile == [exists |-> FALSE, data |-> <<>>, op |-> "none", user_id |-> "",
           access_token |-> "", ok |-> TRUE, before |-> <<>>]
\* How fs::write can end: written; refused with the file untouched; or broken
\* off with the file truncated and only partly written.
WriteOutcomes == {"ok", "refused", "partial"}

\* Arguments of VoiceManager::new: port 0 on loopback and on every interface
\* (the system picks a free port), a fixed port (free or taken), and a string
\* that is no socket address.
BindAddrs == {"127.0.0.1:0", "0.0.0.0:0", "127.0.0.1:5000", "nowhere"}
\* What UdpSocket::bind(bind_addr).await can answer.
BindOutcomes(addr) ==
    CASE addr \in {"127.0.0.1:0", "0.0.0.0:0"} -> {"bound"}
      [] addr = "127.0.0.1:5000" -> {"bound", "failed"}
      [] OTHER -> {"failed"}

\* The address the engine's own socket is bound to (a target for loopback).
SelfAddr == "self"
\* Capture buffers for the loopback path: empty, two samples, and 4096 samples
\* that are all different.
SampleNo(i) == <<64, i \div 256, i % 256, 1>>
LoopFrames == {<<>>, <<<<192, 0, 0, 1>>, <<63, 128, 0, 0>>>>,
               [i \in 1..4096 |-> SampleNo(i)]}

\* The f32 0.0, and a sample value no frame contains (stale buffer content).
Zero == <<0, 0, 0, 0>>
Stale == <<127, 255, 255, 255>>
\* Output buffers the audio host hands the output callback: their lengths, and
\* their content before the callback runs.
OutLens == {0, 1, 2, 4096}
OutBuffers == {[i \in 1..n |-> Stale] : n \in OutLens}

\* Datagrams for the receive path: payloads of every length class around the
\* chunk size (4) and beyond the receive buffer, bytes all different in a chunk.
RecvLens == {0, 3, 4, 5, 8, RecvBufSize + 1, RecvBufSize + 4}
PayloadOfLen(n) == [i \in 1..n |-> (7 * i + n) % 256]
RecvItems == {[kind |-> "data", payload |-> PayloadOfLen(n)] : n \in RecvLens}
                 \cup {[kind |-> "err", payload |-> <<>>]}
InboxItems == {[kind |-> "data", payload |-> p] : p \in InboundPayloads}
                  \cup {[kind |-> "err", payload |-> <<>>]}

VARIABLES
    is_recording,   \* VoiceManager.is_recording (AtomicBool)
    target_addr,    \* VoiceManager.target_addr (the Option inside the Mutex)
    lockq,          \* tokio Mutex of target_addr: FIFO of requesters, Head holds it
    cpc,            \* caller -> position in its current call
    carg,           \* caller -> addr argument of its set_target call in progress
    wpc,            \* worker -> position of the spawned thread
    rx,             \* worker -> its capture hand-off channel (unbounded mpsc)
    play,           \* worker -> its playback channel (std mpsc)
    wdata,          \* worker -> the buffer its send arm holds
    waddr,          \* worker -> the addr its send arm copied out of the lock
    inbox,          \* datagrams / errors pending on the socket
    net,            \* datagrams the socket has sent, in order
    endian,         \* byte order of the build (to_ne_bytes / from_ne_bytes)
    \* history variables (not program state)
    ev,             \* the step just taken
    ncap,           \* number of input-callback invocations so far
    narr,           \* number of datagrams / errors that arrived so far
    lastSet,        \* addr of the set_target call that returned last
    everSet,        \* addrs passed to set_target calls so far
    burst,          \* workers spawned since the last stop() (capped at 2)
    afterStop,      \* worker -> select arms begun while is_recording was false
    \* state outside the running engine
    sock,           \* VoiceManager.socket: what VoiceManager::new made of the bind
    outbuf,         \* the output buffer as the last output callback left it
    host,           \* what the audio host answers to a device enumeration
    listed,         \* what the last get_*_devices call returned
    store,          \* the sessions file of SessionManager
    voice_users     \* the UI's voice-channel user list (voice_users_model)

vars == <<is_recording, target_addr, lockq, cpc, carg, wpc, rx, play, wdata,
          waddr, inbox, net, endian, ev, ncap, narr, lastSet,
          everSet, burst, afterStop, sock, outbuf, host, listed, store,
          voice_users>>

\* ------------------------------------------------------------- helpers
CId(c) == <<"c", c>>
WId(w) == <<"w", w>>

Min(a, b) == IF a < b THEN a ELSE b

\* Mutant: a byte dump that keeps 16 bits of every sample.
ToNeBytesHalf(v, e) ==
    IF e = "be" THEN <<v[1], v[2]>> ELSE <<v[2], v[1]>>

\* f32::to_ne_bytes of one sample, for the build's byte order.
ToNeBytes(v, e) ==
    IF e = "be" THEN v ELSE <<v[4], v[3], v[2], v[1]>>

\* The input callback's byte dump: bytes.extend_from_slice(&sample.to_ne_bytes())
\* for each sample, in order (the dump of a buffer is the dump of its first
\* half followed by the dump of the rest, which keeps the recursion shallow).
RECURSIVE SamplesToBytes(_, _)
SamplesToBytes(data, e) ==
    IF data = <<>> THEN <<>>
    ELSE IF Len(data) = 1 THEN ToNeBytes(data[1], e)
    ELSE LET h == Len(data) \div 2
         IN  SamplesToBytes(SubSeq(data, 1, h), e)
                 \o SamplesToBytes(SubSeq(data, h + 1, Len(data)), e)

\* f32::from_ne_bytes of a 4-byte chunk.
FromNeBytes(b, e) ==
    IF e = "be" THEN b ELSE <<b[4], b[3], b[2], b[1]>>

\* The receive arm's decoding: buf[..len].chunks_exact(4), each chunk one f32.
BytesToSamples(bytes, e) ==
    [i \in 1..(Len(bytes) \div 4) |->
        FromNeBytes(SubSeq(bytes, 4 * i - 3, 4 * i), e)]

\* Positions of a worker thread.
LoopPcs == {"loop", "select", "lock", "send"}
ActivePcs == {"setup_in", "setup_out"} \cup LoopPcs
\* "off": no thread in this slot (never spawned, returned, or panicked).
FreePcs == {"off"}

\* The input stream lives from build_input_stream to the end of the thread.
InputStreamLive(w) == wpc[w] \in ({"setup_out"} \cup LoopPcs)

ActiveWorkers == {w \in Workers : wpc[w] \in ActivePcs}
FreeSlots == {w \in Workers : wpc[w] \in FreePcs}
PendingStarts == {c \in Callers : cpc[c] = "start_store"}
\* The model runs at most MaxWorkers threads at once: a start that would spawn
\* is taken only while a thread slot is left for it.
SlotAvailable == Cardinality(FreeSlots) > Cardinality(PendingStarts)
NewWorker == CHOOSE w \in FreeSlots : \A v \in FreeSlots : w <= v

\* History: most steps are told apart by the positions they change; ev labels
\* the others: "stop", "start_noop" (a start that returns at its check),
\* "panic" (a thread ended by a failed unwrap) and "discard" (the send arm
\* dropping a buffer because no target is set).
Other == "other"

\* ------------------------------------------------------------- Init
\* The fields of a VoiceManager as VoiceManager::new leaves them, and a
\* process that has started no worker yet.
NewEngine ==
    /\ is_recording = FALSE
    /\ target_addr = None
    /\ lockq = <<>>
    /\ cpc = [c \in Callers |-> "idle"]
    /\ carg = [c \in Callers |-> None]
    /\ wpc = [w \in Workers |-> "off"]
    /\ rx = [w \in Workers |-> <<>>]
    /\ play = [w \in Workers |-> <<>>]
    /\ wdata = [w \in Workers |-> <<>>]
    /\ waddr = [w \in Workers |-> None]
    /\ inbox = <<>>
    /\ net = <<>>
    /\ endian \in {"le", "be"}
    /\ ev = Other
    /\ ncap = 0
    /\ narr = 0
    /\ lastSet = None
    /\ everSet = {}
    /\ burst = 0
    /\ afterStop = [w \in Workers |-> 0]

\* Nothing played, nothing listed, no sessions file.
Untouched ==
    /\ outbuf = <<>>
    /\ host = [input |-> HostErr, output |-> HostErr]
    /\ listed = NoList
    /\ store = NoFile
    /\ voice_users = InitialVoiceUsers

\* VoiceManager::new after a successful bind.
Init ==
    /\ NewEngine
    /\ sock = [st |-> "bound", addr |-> "0.0.0.0:0"]
    /\ Untouched

\* An engine just built, on a host with any device enumeration.
InitDevices ==
    /\ NewEngine
    /\ sock = [st |-> "bound", addr |-> "0.0.0.0:0"]
    /\ outbuf = <<>>
    /\ host \in [input : HostAnswers, output : HostAnswers]
    /\ listed = NoList
    /\ store = NoFile
    /\ voice_users = InitialVoiceUsers

\* Before VoiceManager::new: no socket and no engine. The fields of the engine
\* to come have no value yet, which is any value here: only new gives them one.
InitCreate ==
    /\ sock = [st |-> "none", addr |-> None]
    /\ is_recording \in BOOLEAN
    /\ target_addr \in Addrs \cup {None}
    /\ lockq = <<>>
    /\ cpc = [c \in Callers |-> "idle"]
    /\ carg = [c \in Callers |-> None]
    /\ wpc = [w \in Workers |-> "off"]
    /\ rx = [w \in Workers |-> <<>>]
    /\ play = [w \in Workers |-> <<>>]
    /\ wdata = [w \in Workers |-> <<>>]
    /\ waddr = [w \in Workers |-> None]
    /\ inbox = <<>>
    /\ net = <<>>
    /\ endian \in {"le", "be"}
    /\ ev = Other
    /\ ncap = 0
    /\ narr = 0
    /\ lastSet = None
    /\ everSet = {}
    /\ burst = 0
    /\ afterStop = [w \in Workers |-> 0]
    /\ Untouched

callerVars == <<cpc, carg>>
workerVars == <<wpc, rx, play, wdata, waddr>>
netVars == <<inbox, net>>
histVars == <<ncap, narr, lastSet, everSet, burst, afterStop>>
\* What no step of a running engine touches, except the output callback (outbuf).
auxVars == <<sock, outbuf, host, listed, store, voice_users>>

\* ------------------------------------------------------------- construction
\* Mutant: an engine born recording.
NewStartsRecording(addr) ==
    /\ sock.st = "none"
    /\ \E r \in BindOutcomes(addr) :
          /\ sock' = [st |-> r, addr |-> addr]
          /\ IF r = "bound"
             THEN /\ is_recording' = TRUE
                  /\ target_addr' = None
             ELSE UNCHANGED <<is_recording, target_addr>>
    /\ ev' = "new"
    /\ UNCHANGED <<lockq, callerVars, workerVars, netVars, endian, histVars>>
    /\ UNCHANGED <<outbuf, host, listed, store, voice_users>>

\* VoiceManager::new(bind_addr): UdpSocket::bind(bind_addr).await?, then the
\* struct with is_recording false and target_addr None. A failed bind returns
\* the error and builds nothing.
New(addr) ==
    /\ sock.st = "none"
    /\ \E r \in BindOutcomes(addr) :
          /\ sock' = [st |-> r, addr |-> addr]
          /\ IF r = "bound"
             THEN /\ is_recording' = FALSE
                  /\ target_addr' = None
             ELSE UNCHANGED <<is_recording, target_addr>>
    /\ ev' = "new"
    /\ UNCHANGED <<lockq, callerVars, workerVars, netVars, endian, histVars>>
    /\ UNCHANGED <<outbuf, host, listed, store, voice_users>>

\* ------------------------------------------------------------- device lists
\* devices.filter_map(|d| d.name().ok()).collect()
RECURSIVE ReadableNames(_)
ReadableNames(ds) ==
    IF ds = <<>> THEN <<>>
    ELSE IF Head(ds).named THEN <<Head(ds).name>> \o ReadableNames(Tail(ds))
    ELSE ReadableNames(Tail(ds))

\* The match of get_input_devices / get_output_devices on the enumeration.
DeviceNames(answer, placeholder) ==
    IF answer.ok THEN ReadableNames(answer.devices) ELSE <<placeholder>>

\* Mutant: a list that is only made while nobody holds the target_addr lock.
GetInputDevicesLocking ==
    /\ lockq = <<>>
    /\ listed' = [fn |-> "input",
                  names |-> DeviceNames(host.input, "Default Input")]
    /\ ev' = "list"
    /\ UNCHANGED <<is_recording, target_addr, lockq, callerVars, workerVars,
                   netVars, endian, histVars>>
    /\ UNCHANGED <<sock, outbuf, host, store, voice_users>>

\* VoiceManager::get_input_devices() (an associated function: no self).
GetInputDevices ==
    /\ listed' = [fn |-> "input",
                  names |-> DeviceNames(host.input, "Default Input")]
    /\ ev' = "list"
    /\ UNCHANGED <<is_recording, target_addr, lockq, callerVars, workerVars,
                   netVars, endian, histVars>>
    /\ UNCHANGED <<sock, outbuf, host, store, voice_users>>

\* VoiceManager::get_output_devices().
GetOutputDevices ==
    /\ listed' = [fn |-> "output",
                  names |-> DeviceNames(host.output, "Default Output")]
    /\ ev' = "list"
    /\ UNCHANGED <<is_recording, target_addr, lockq, callerVars, workerVars,
                   netVars, endian, histVars>>
    /\ UNCHANGED <<sock, outbuf, host, store, voice_users>>

\* ------------------------------------------------------------- sessions
\* serde_json::to_string_pretty(&sessions): the text of the file, as tokens.
RECURSIVE Fields(_)
Fields(sessions) ==
    IF sessions = <<>> THEN <<>>
    ELSE <<Head(sessions).user_id, Head(sessions).access_token>>
             \o Fields(Tail(sessions))

ToJson(sessions) == <<"[">> \o Fields(sessions) \o <<"]">>

\* serde_json::from_str::<Vec<Session>>(&data): Ok only for a whole array.
ValidJson(data) ==
    /\ Len(data) >= 2
    /\ data[1] = "["
    /\ data[Len(data)] = "]"
    /\ (Len(data) - 2) % 2 = 0

FromJson(data) ==
    [i \in 1..((Len(data) - 2) \div 2) |->
        [user_id |-> data[2 * i], access_token |-> data[2 * i + 1]]]

\* load_sessions().unwrap_or_default(): empty without a file, and when the
\* file cannot be read or parsed; else the parsed sessions.
LoadOrDefault(readOk) ==
    IF store.exists /\ readOk /\ ValidJson(store.data)
    THEN FromJson(store.data) ELSE <<>>

\* The sessions the file holds (what get_remembered_profiles would show when
\* the file can be read).
Stored == IF store.exists /\ ValidJson(store.data) THEN FromJson(store.data) ELSE <<>>

\* save_session's update: *existing = session for the first entry with the
\* user_id, else sessions.push(session).
Upsert(sessions, s) ==
    IF \E i \in 1..Len(sessions) : sessions[i].user_id = s.user_id
    THEN LET i == CHOOSE i \in 1..Len(sessions) :
                      /\ sessions[i].user_id = s.user_id
                      /\ \A j \in 1..(i - 1) : sessions[j].user_id # s.user_id
         IN  [sessions EXCEPT ![i] = s]
    ELSE Append(sessions, s)

\* sessions.retain(|s| s.user_id != user_id)
RECURSIVE Retain(_, _)
Retain(sessions, u) ==
    IF sessions = <<>> THEN <<>>
    ELSE IF Head(sessions).user_id # u
         THEN <<Head(sessions)>> \o Retain(Tail(sessions), u)
         ELSE Retain(Tail(sessions), u)

\* fs::write(&path, data) on the sessions file.
Written(data, w) ==
    CASE w = "ok" -> [exists |-> TRUE, data |-> data]
      [] w = "partial" -> [exists |-> TRUE, data |-> SubSeq(data, 1, Len(data) - 1)]
      [] OTHER -> [exists |-> store.exists, data |-> store.data]

\* SessionManager::save_session(session)
SaveSession(s) ==
    /\ \E readOk \in BOOLEAN, w \in WriteOutcomes :
          LET file == Written(ToJson(Upsert(LoadOrDefault(readOk), s)), w)
          IN  store' = [exists |-> file.exists, data |-> file.data,
                        op |-> "save", user_id |-> s.user_id,
                        access_token |-> s.access_token, ok |-> (w = "ok"),
                        before |-> Stored]
    /\ ev' = "session"
    /\ UNCHANGED <<is_recording, target_addr, lockq, callerVars, workerVars,
                   netVars, endian, histVars>>
    /\ UNCHANGED <<sock, outbuf, host, listed, voice_users>>

\* SessionManager::delete_session(user_id)
DeleteSession(u) ==
    /\ \E readOk \in BOOLEAN, w \in WriteOutcomes :
          LET file == Written(ToJson(Retain(LoadOrDefault(readOk), u)), w)
          IN  store' = [exists |-> file.exists, data |-> file.data,
                        op |-> "delete", user_id |-> u,
                        access_token |-> "", ok |-> (w = "ok"),
                        before |-> Stored]
    /\ ev' = "session"
    /\ UNCHANGED <<is_recording, target_addr, lockq, callerVars, workerVars,
                   netVars, endian, histVars>>
    /\ UNCHANGED <<sock, outbuf, host, listed, voice_users>>

\* ------------------------------------------------------------- callers
\* Mutant: the check of start_audio_loop left out.
StartNeverRunning == FALSE

\* start_audio_loop, the check: if self.is_recording.load() { return Ok(()) }
StartAlreadyRunning == is_recording

\* Mutant: a start that waits for the previous worker to be gone.
StartCheckJoins(c) ==
    /\ cpc[c] = "idle"
    /\ IF StartAlreadyRunning
       THEN /\ ev' = "start_noop"
            /\ UNCHANGED cpc
       ELSE /\ SlotAvailable
            /\ ActiveWorkers = {}
            /\ ev' = Other
            /\ cpc' = [cpc EXCEPT ![c] = "start_store"]
    /\ UNCHANGED <<is_recording, target_addr, lockq, carg, workerVars, netVars,
                   endian, histVars>>
    /\ UNCHANGED auxVars

StartCheck(c) ==
    /\ cpc[c] = "idle"
    /\ IF StartAlreadyRunning
       THEN /\ ev' = "start_noop"
            /\ UNCHANGED cpc
       ELSE /\ SlotAvailable
            /\ ev' = Other
            /\ cpc' = [cpc EXCEPT ![c] = "start_store"]
    /\ UNCHANGED <<is_recording, target_addr, lockq, carg, workerVars, netVars,
                   endian, histVars>>
    /\ UNCHANGED auxVars

\* Mutant: a start that begins every run without a target.
StartSpawnResetsTarget(c) ==
    /\ cpc[c] = "start_store"
    /\ is_recording' = TRUE
    /\ target_addr' = None
    /\ wpc' = [wpc EXCEPT ![NewWorker] = "setup_in"]
    /\ cpc' = [cpc EXCEPT ![c] = "idle"]
    /\ burst' = Min(burst + 1, 2)
    /\ afterStop' = [w \in Workers |-> 0]
    /\ ev' = Other
    /\ UNCHANGED <<lockq, carg, rx, play, wdata, waddr, netVars,
                   endian, ncap, narr, lastSet, everSet>>
    /\ UNCHANGED auxVars

\* start_audio_loop, the rest: store(true), thread::spawn, return Ok(()).
StartSpawn(c) ==
    /\ cpc[c] = "start_store"
    /\ is_recording' = TRUE
    /\ wpc' = [wpc EXCEPT ![NewWorker] = "setup_in"]
    /\ cpc' = [cpc EXCEPT ![c] = "idle"]
    /\ burst' = Min(burst + 1, 2)
    /\ afterStop' = [w \in Workers |-> 0]
    /\ ev' = Other
    /\ UNCHANGED <<target_addr, lockq, carg, rx, play, wdata, waddr, netVars,
                   endian, ncap, narr, lastSet, everSet>>
    /\ UNCHANGED auxVars

\* Mutant: a stop that also resets the target.
StopClearsTarget(c) ==
    /\ cpc[c] = "idle"
    /\ is_recording' = FALSE
    /\ target_addr' = None
    /\ burst' = 0
    /\ ev' = "stop"
    /\ UNCHANGED <<lockq, callerVars, workerVars, netVars, endian,
                   ncap, narr, lastSet, everSet, afterStop>>
    /\ UNCHANGED auxVars

\* stop: self.is_recording.store(false)
Stop(c) ==
    /\ cpc[c] = "idle"
    /\ is_recording' = FALSE
    /\ burst' = 0
    /\ ev' = "stop"
    /\ UNCHANGED <<target_addr, lockq, callerVars, workerVars, netVars, endian,
                   ncap, narr, lastSet, everSet, afterStop>>
    /\ UNCHANGED auxVars

\* set_target, the call: self.target_addr.lock().await
SetTargetLock(c, a) ==
    /\ cpc[c] = "idle"
    /\ cpc' = [cpc EXCEPT ![c] = "set_wait"]
    /\ carg' = [carg EXCEPT ![c] = a]
    /\ lockq' = Append(lockq, CId(c))
    /\ everSet' = everSet \cup {a}
    /\ ev' = Other
    /\ UNCHANGED <<is_recording, target_addr, workerVars, netVars, endian,
                   ncap, narr, lastSet, burst, afterStop>>
    /\ UNCHANGED auxVars

\* Mutant: a set_target that only fills an empty target (get_or_insert).
SetTargetWriteOnce(c) ==
    /\ cpc[c] = "set_wait"
    /\ lockq # <<>> /\ Head(lockq) = CId(c)
    /\ target_addr' = IF target_addr = None THEN carg[c] ELSE target_addr
    /\ lockq' = Tail(lockq)
    /\ cpc' = [cpc EXCEPT ![c] = "idle"]
    /\ carg' = [carg EXCEPT ![c] = None]
    /\ lastSet' = carg[c]
    /\ ev' = Other
    /\ UNCHANGED <<is_recording, workerVars, netVars, endian, ncap,
                   narr, everSet, burst, afterStop>>
    /\ UNCHANGED auxVars

\* set_target, with the lock: *target = Some(addr); the guard drops on return.
SetTargetWrite(c) ==
    /\ cpc[c] = "set_wait"
    /\ lockq # <<>> /\ Head(lockq) = CId(c)
    /\ target_addr' = carg[c]
    /\ lockq' = Tail(lockq)
    /\ cpc' = [cpc EXCEPT ![c] = "idle"]
    /\ carg' = [carg EXCEPT ![c] = None]
    /\ lastSet' = carg[c]
    /\ ev' = Other
    /\ UNCHANGED <<is_recording, workerVars, netVars, endian, ncap,
                   narr, everSet, burst, afterStop>>
    /\ UNCHANGED auxVars

\* ------------------------------------------------------------- worker thread
\* host.default_input_device(), default_input_config().unwrap(),
\* build_input_stream(..).unwrap(), input_stream.play().unwrap()
SetupInput(w) ==
    /\ wpc[w] = "setup_in"
    /\ \E r \in {"ok", "none", "fail"} :
          /\ wpc' = [wpc EXCEPT ![w] =
                        IF r = "ok" THEN "setup_out" ELSE "off"]
          /\ ev' = CASE r = "fail" -> "panic"
                     [] r = "none" -> "no_device"
                     [] OTHER -> Other
    /\ UNCHANGED <<is_recording, target_addr, lockq, callerVars, rx, play,
                   wdata, waddr, netVars, endian, histVars>>
    /\ UNCHANGED auxVars

\* Mutant: a missing output device takes the engine out of the running state.
SetupOutputResetsFlag(w) ==
    /\ wpc[w] = "setup_out"
    /\ \E r \in {"ok", "none", "fail"} :
          /\ wpc' = [wpc EXCEPT ![w] =
                        IF r = "ok" THEN "loop" ELSE "off"]
          /\ rx' = [rx EXCEPT ![w] = IF r = "ok" THEN @ ELSE <<>>]
          /\ is_recording' = IF r = "none" THEN FALSE ELSE is_recording
          /\ ev' = CASE r = "fail" -> "panic"
                     [] r = "none" -> "no_device"
                     [] OTHER -> Other
    /\ UNCHANGED <<target_addr, lockq, callerVars, play, wdata,
                   waddr, netVars, endian, histVars>>
    /\ UNCHANGED auxVars

\* host.default_output_device(), default_output_config().unwrap(),
\* build_output_stream(..).unwrap(), output_stream.play().unwrap(), the runtime.
\* Leaving the thread here drops the input stream and the hand-off channel.
SetupOutput(w) ==
    /\ wpc[w] = "setup_out"
    /\ \E r \in {"ok", "none", "fail"} :
          /\ wpc' = [wpc EXCEPT ![w] =
                        IF r = "ok" THEN "loop" ELSE "off"]
          /\ rx' = [rx EXCEPT ![w] = IF r = "ok" THEN @ ELSE <<>>]
          /\ ev' = CASE r = "fail" -> "panic"
                     [] r = "none" -> "no_device"
                     [] OTHER -> Other
    /\ UNCHANGED <<is_recording, target_addr, lockq, callerVars, play, wdata,
                   waddr, netVars, endian, histVars>>
    /\ UNCHANGED auxVars

\* Mutant: a loop that never looks at the flag.
LoopNeverObservesStop == FALSE

\* loop { if !is_running.load(Ordering::SeqCst) { break; } ... }
LoopObservesStop == ~is_recording

\* The top of the loop. On break the thread ends: streams and channels drop.
LoopCheck(w) ==
    /\ wpc[w] = "loop"
    /\ IF LoopObservesStop
       THEN /\ wpc' = [wpc EXCEPT ![w] = "off"]
            /\ rx' = [rx EXCEPT ![w] = <<>>]
            /\ play' = [play EXCEPT ![w] = <<>>]
            /\ ev' = Other
       ELSE /\ wpc' = [wpc EXCEPT ![w] = "select"]
            /\ ev' = Other
            /\ UNCHANGED <<rx, play>>
    /\ UNCHANGED <<is_recording, target_addr, lockq, callerVars, wdata, waddr,
                   netVars, endian, histVars>>
    /\ UNCHANGED auxVars

\* History: one more select arm begun by w; counted while the flag is false.
ArmBegun(w) ==
    IF is_recording THEN afterStop
    ELSE [afterStop EXCEPT ![w] = Min(@ + 1, 2)]

\* select!, send arm: Some(data) = rx.recv() resolves, then
\* target_addr_mutex.lock().await is requested.
SendArmDequeue(w) ==
    /\ wpc[w] = "select"
    /\ rx[w] # <<>>
    /\ wdata' = [wdata EXCEPT ![w] = Head(rx[w])]
    /\ rx' = [rx EXCEPT ![w] = Tail(rx[w])]
    /\ lockq' = Append(lockq, WId(w))
    /\ wpc' = [wpc EXCEPT ![w] = "lock"]
    /\ afterStop' = ArmBegun(w)
    /\ ev' = Other
    /\ UNCHANGED <<is_recording, target_addr, callerVars, play, waddr, netVars,
                   endian, ncap, narr, lastSet, everSet, burst>>
    /\ UNCHANGED auxVars

\* Mutant: a send arm that falls back to a default peer when no target is set.
SendArmTargetOrDefault(w) == IF target_addr = None THEN "addrA" ELSE target_addr

\* if let Some(addr) = *target { socket.send_to(&data, addr) }: the address the
\* send arm uses, read under the lock.
SendArmTarget(w) == target_addr

\* Send arm with the lock: Some(addr) starts send_to (the guard stays alive
\* across the await); None drops the buffer and the guard.
SendArmLocked(w) ==
    /\ wpc[w] = "lock"
    /\ lockq # <<>> /\ Head(lockq) = WId(w)
    /\ IF SendArmTarget(w) # None
       THEN /\ waddr' = [waddr EXCEPT ![w] = SendArmTarget(w)]
            /\ wpc' = [wpc EXCEPT ![w] = "send"]
            /\ ev' = Other
            /\ UNCHANGED <<lockq, wdata>>
       ELSE /\ wpc' = [wpc EXCEPT ![w] = "loop"]
            /\ wdata' = [wdata EXCEPT ![w] = <<>>]
            /\ lockq' = Tail(lockq)
            /\ ev' = "discard"
            /\ UNCHANGED waddr
    /\ UNCHANGED <<is_recording, target_addr, callerVars, rx, play, netVars,
                   endian, histVars>>
    /\ UNCHANGED auxVars

\* The datagram one completed send_to(&data, addr) puts on the wire.
\* (id and samples are history: the callback invocation the buffer came from.)
Datagram(w) ==
    [to |-> waddr[w], payload |-> wdata[w].bytes,
     id |-> wdata[w].id, samples |-> wdata[w].samples]

\* Mutant: a send arm whose guard outlives the arm (the lock is not released).
SendArmDoneKeepsLock(w) ==
    /\ wpc[w] = "send"
    /\ \E ok \in BOOLEAN :
          /\ net' = IF ok THEN Append(net, Datagram(w)) ELSE net
          /\ ev' = IF ok THEN Other ELSE "send_err"
    /\ wpc' = [wpc EXCEPT ![w] = "loop"]
    /\ wdata' = [wdata EXCEPT ![w] = <<>>]
    /\ waddr' = [waddr EXCEPT ![w] = None]
    /\ UNCHANGED <<is_recording, target_addr, lockq, callerVars, rx, play, inbox,
                   endian, histVars>>
    /\ UNCHANGED auxVars

\* let _ = socket.send_to(&data, addr).await; then the arm ends, the guard drops.
SendArmDone(w) ==
    /\ wpc[w] = "send"
    /\ \E ok \in BOOLEAN :
          /\ net' = IF ok THEN Append(net, Datagram(w)) ELSE net
          /\ ev' = IF ok THEN Other ELSE "send_err"
    /\ lockq' = Tail(lockq)
    /\ wpc' = [wpc EXCEPT ![w] = "loop"]
    /\ wdata' = [wdata EXCEPT ![w] = <<>>]
    /\ waddr' = [waddr EXCEPT ![w] = None]
    /\ UNCHANGED <<is_recording, target_addr, callerVars, rx, play, inbox,
                   endian, histVars>>
    /\ UNCHANGED auxVars

\* Mutant: a receive buffer as long as any datagram.
ReceivedWhole(payload) == payload

\* buf[..len] of a received datagram: recv_from fills at most the buffer.
Received(payload) == SubSeq(payload, 1, Min(Len(payload), RecvBufSize))

\* Mutant: a receive error propagated out of the loop (res? instead of the
\* match with an empty Err arm).
RecvArmBreaks(w) ==
    /\ wpc[w] = "select"
    /\ inbox # <<>>
    /\ inbox' = Tail(inbox)
    /\ IF Head(inbox).kind = "data"
       THEN /\ play' = [play EXCEPT ![w] =
                   Append(@, BytesToSamples(Received(Head(inbox).payload), endian))]
            /\ ev' = Other
            /\ wpc' = [wpc EXCEPT ![w] = "loop"]
       ELSE /\ ev' = "recv_err"
            /\ play' = [play EXCEPT ![w] = <<>>]
            /\ wpc' = [wpc EXCEPT ![w] = "off"]
    /\ afterStop' = ArmBegun(w)
    /\ UNCHANGED <<is_recording, target_addr, lockq, callerVars, rx, wdata,
                   waddr, net, endian, ncap, narr, lastSet, everSet,
                   burst>>
    /\ UNCHANGED auxVars

\* Mutant: a select whose losing arm had already taken its buffer off the
\* hand-off queue (a receive that is not cancel safe).
RecvArmDropsPending(w) ==
    /\ wpc[w] = "select"
    /\ inbox # <<>>
    /\ inbox' = Tail(inbox)
    /\ IF Head(inbox).kind = "data"
       THEN /\ play' = [play EXCEPT ![w] =
                   Append(@, BytesToSamples(Received(Head(inbox).payload), endian))]
            /\ ev' = Other
       ELSE /\ ev' = "recv_err"
            /\ UNCHANGED play
    /\ rx' = [rx EXCEPT ![w] = IF @ = <<>> THEN @ ELSE Tail(@)]
    /\ wpc' = [wpc EXCEPT ![w] = "loop"]
    /\ afterStop' = ArmBegun(w)
    /\ UNCHANGED <<is_recording, target_addr, lockq, callerVars, wdata,
                   waddr, net, endian, ncap, narr, lastSet, everSet,
                   burst>>
    /\ UNCHANGED auxVars

\* select!, receive arm: res = socket_recv.recv_from(&mut buf) resolves.
\* Ok: decode and play_tx.send(samples); Err: ignored.
RecvArm(w) ==
    /\ wpc[w] = "select"
    /\ inbox # <<>>
    /\ inbox' = Tail(inbox)
    /\ IF Head(inbox).kind = "data"
       THEN /\ play' = [play EXCEPT ![w] =
                   Append(@, BytesToSamples(Received(Head(inbox).payload), endian))]
            /\ ev' = Other
       ELSE /\ ev' = "recv_err"
            /\ UNCHANGED play
    /\ wpc' = [wpc EXCEPT ![w] = "loop"]
    /\ afterStop' = ArmBegun(w)
    /\ UNCHANGED <<is_recording, target_addr, lockq, callerVars, rx, wdata,
                   waddr, net, endian, ncap, narr, lastSet, everSet,
                   burst>>
    /\ UNCHANGED auxVars

\* ------------------------------------------------------------- UI
\* The on_toggle_voice handler, run by the UI thread, the engine's only caller
\* there. active: start_audio_loop() (a return at the check while recording,
\* else store(true) and the spawn), then insert(0, "You"). Not active: stop(),
\* then remove(0) if the list has a row.
ToggleVoice(active) ==
    /\ IF active
       THEN /\ is_recording \/ SlotAvailable
            /\ Len(voice_users) < MaxVoiceUsers
            /\ IF is_recording
               THEN UNCHANGED <<is_recording, wpc, burst, afterStop>>
               ELSE /\ is_recording' = TRUE
                    /\ wpc' = [wpc EXCEPT ![NewWorker] = "setup_in"]
                    /\ burst' = Min(burst + 1, 2)
                    /\ afterStop' = [w \in Workers |-> 0]
            /\ voice_users' = <<"You">> \o voice_users
       ELSE /\ is_recording' = FALSE
            /\ burst' = 0
            /\ voice_users' = IF Len(voice_users) > 0
                              THEN Tail(voice_users) ELSE voice_users
            /\ UNCHANGED <<wpc, afterStop>>
    /\ ev' = "toggle"
    /\ UNCHANGED <<target_addr, lockq, callerVars, rx, play, wdata, waddr,
                   netVars, endian, ncap, narr, lastSet, everSet>>
    /\ UNCHANGED <<sock, outbuf, host, listed, store>>

\* ------------------------------------------------------------- callbacks, network
\* Mutant: a hand-off channel of capacity two whose sender drops when full
\* (try_send on a bounded channel).
InputCallbackDropsWhenFull(w, data) ==
    /\ InputStreamLive(w)
    /\ rx' = [rx EXCEPT ![w] =
                 IF Len(@) >= 2 THEN @
                 ELSE Append(@, [id |-> ncap + 1, samples |-> data,
                                 bytes |-> SamplesToBytes(data, endian)])]
    /\ ncap' = ncap + 1
    /\ ev' = Other
    /\ UNCHANGED <<is_recording, target_addr, lockq, callerVars, wpc, play,
                   wdata, waddr, netVars, endian, narr, lastSet, everSet, burst,
                   afterStop>>
    /\ UNCHANGED auxVars

\* Mutant: a hand-off channel of capacity one whose sender waits for room.
InputCallbackBounded(w, data) ==
    /\ InputStreamLive(w)
    /\ Len(rx[w]) < 1
    /\ rx' = [rx EXCEPT ![w] =
                 Append(@, [id |-> ncap + 1, samples |-> data,
                            bytes |-> SamplesToBytes(data, endian)])]
    /\ ncap' = ncap + 1
    /\ ev' = Other
    /\ UNCHANGED <<is_recording, target_addr, lockq, callerVars, wpc, play,
                   wdata, waddr, netVars, endian, narr, lastSet, everSet, burst,
                   afterStop>>
    /\ UNCHANGED auxVars

\* The input callback: byte dump of data, then let _ = tx.send(bytes).
InputCallback(w, data) ==
    /\ InputStreamLive(w)
    /\ rx' = [rx EXCEPT ![w] =
                 Append(@, [id |-> ncap + 1, samples |-> data,
                            bytes |-> SamplesToBytes(data, endian)])]
    /\ ncap' = ncap + 1
    /\ ev' = Other
    /\ UNCHANGED <<is_recording, target_addr, lockq, callerVars, wpc, play,
                   wdata, waddr, netVars, endian, narr, lastSet, everSet, burst,
                   afterStop>>
    /\ UNCHANGED auxVars

\* The output stream exists from its build until the worker thread returns.
OutputStreamLive(w) == wpc[w] \in LoopPcs

\* data[..len].copy_from_slice(&incoming[..len])
CopyPrefix(data, incoming, len) ==
    [i \in 1..Len(data) |-> IF i <= len THEN incoming[i] ELSE data[i]]

\* Mutant: the tail of the buffer left as it was.
ZeroFromNever(data, len) == data

\* for sample in &mut data[len..] { *sample = 0.0 }
ZeroFrom(data, len) ==
    [i \in 1..Len(data) |-> IF i > len THEN Zero ELSE data[i]]

\* Mutant: the part of a frame that did not fit is kept for the next callback.
OutputCallbackCarries(w, data) ==
    /\ OutputStreamLive(w)
    /\ IF play[w] # <<>>
       THEN LET incoming == Head(play[w])
                len == Min(Len(data), Len(incoming))
            IN  /\ outbuf' = ZeroFrom(CopyPrefix(data, incoming, len), len)
                /\ play' = [play EXCEPT ![w] =
                               IF len < Len(incoming)
                               THEN <<SubSeq(incoming, len + 1, Len(incoming))>>
                                        \o Tail(@)
                               ELSE Tail(@)]
       ELSE /\ outbuf' = ZeroFrom(data, 0)
            /\ UNCHANGED play
    /\ ev' = "out"
    /\ UNCHANGED <<is_recording, target_addr, lockq, callerVars, wpc, rx,
                   wdata, waddr, netVars, endian, histVars>>
    /\ UNCHANGED <<sock, host, listed, store, voice_users>>

\* The output callback on a buffer data: one play_rx.try_recv(); a frame is
\* copied to the front and the rest zeroed, no frame zeroes everything.
OutputCallback(w, data) ==
    /\ OutputStreamLive(w)
    /\ IF play[w] # <<>>
       THEN LET incoming == Head(play[w])
                len == Min(Len(data), Len(incoming))
            IN  /\ outbuf' = ZeroFrom(CopyPrefix(data, incoming, len), len)
                /\ play' = [play EXCEPT ![w] = Tail(@)]
       ELSE /\ outbuf' = ZeroFrom(data, 0)
            /\ UNCHANGED play
    /\ ev' = "out"
    /\ UNCHANGED <<is_recording, target_addr, lockq, callerVars, wpc, rx,
                   wdata, waddr, netVars, endian, histVars>>
    /\ UNCHANGED <<sock, host, listed, store, voice_users>>

\* The network hands the bound socket a datagram, or a socket error to report.
Arrive(item) ==
    /\ inbox' = Append(inbox, item)
    /\ narr' = narr + 1
    /\ ev' = Other
    /\ UNCHANGED <<is_recording, target_addr, lockq, callerVars, workerVars,
                   net, endian, ncap, lastSet, everSet, burst,
                   afterStop>>
    /\ UNCHANGED auxVars

\* ------------------------------------------------------------- specifications
CallerStep(c) ==
    \/ StartCheck(c)
    \/ StartSpawn(c)
    \/ Stop(c)
    \/ (\E a \in Addrs : SetTargetLock(c, a))
    \/ SetTargetWrite(c)

\* Steps a worker thread takes on its own once they are enabled.
WorkerStep(w) ==
    \/ SetupInput(w)
    \/ SetupOutput(w)
    \/ LoopCheck(w)
    \/ SendArmDequeue(w)
    \/ SendArmLocked(w)
    \/ SendArmDone(w)
    \/ RecvArm(w)

Capture(limit) ==
    /\ ncap < limit
    /\ \E w \in Workers, data \in CaptureFrames : InputCallback(w, data)

Inbound ==
    /\ narr < MaxInbound
    /\ \E item \in InboxItems : Arrive(item)

\* The engine with every caller context.
Next ==
    \/ \E c \in Callers : CallerStep(c)
    \/ \E w \in Workers : WorkerStep(w)
    \/ Capture(MaxCaptures)
    \/ Inbound

Spec == Init /\ [][Next]_vars

\* The engine driven by a single caller context (calls never overlap).
NextSeq ==
    \/ CallerStep(1)
    \/ \E w \in Workers : WorkerStep(w)
    \/ Capture(MaxCaptures)
    \/ Inbound

SpecSeq == Init /\ [][NextSeq]_vars

\* The outbound data path: one caller context, the capture callbacks and the
\* send arm, with nothing arriving on the socket.
NextData ==
    \/ CallerStep(1)
    \/ \E w \in Workers :
          \/ SetupInput(w)
          \/ SetupOutput(w)
          \/ LoopCheck(w)
          \/ SendArmDequeue(w)
          \/ SendArmLocked(w)
          \/ SendArmDone(w)
    \/ Capture(MaxDataCaptures)

SpecData == Init /\ [][NextData]_vars

\* The inbound path: one start, the worker's setup and loop, and datagrams of
\* every length class arriving on the socket.
InboundRecv ==
    /\ narr < MaxRecv
    /\ \E item \in RecvItems : Arrive(item)

NextRecv ==
    \/ StartCheck(1)
    \/ StartSpawn(1)
    \/ \E w \in Workers :
          \/ SetupInput(w)
          \/ SetupOutput(w)
          \/ LoopCheck(w)
          \/ RecvArm(w)
    \/ InboundRecv

SpecRecv == Init /\ [][NextRecv]_vars

Playback ==
    \E w \in Workers, data \in OutBuffers : OutputCallback(w, data)

\* The inbound path with the output callback draining the playback queue.
NextPlay ==
    \/ NextRecv
    \/ Playback

SpecPlay == Init /\ [][NextPlay]_vars

\* Construction, then the calls and the worker of the engine it returned.
Create == \E addr \in BindAddrs : New(addr)

NextCreate ==
    \/ Create
    \/ /\ sock.st = "bound"
       /\ \/ CallerStep(1)
          \/ \E w \in Workers : WorkerStep(w)

SpecCreate == InitCreate /\ [][NextCreate]_vars

\* The device lists on every host.
NextDevices ==
    \/ GetInputDevices
    \/ GetOutputDevices

SpecDevices == InitDevices /\ [][NextDevices]_vars

\* The device lists asked for at any moment of an engine's life (one caller
\* context, the worker, captures, datagrams).
NextList ==
    \/ NextSeq
    \/ GetInputDevices
    \/ GetOutputDevices

SpecList == Init /\ [][NextList]_vars

\* The session store: any sequence of save_session and delete_session calls,
\* starting without a sessions file.
NextSession ==
    \/ \E s \in Sessions : SaveSession(s)
    \/ \E u \in UserIds : DeleteSession(u)

SpecSession == Init /\ [][NextSession]_vars

\* Loopback: the kernel hands the socket the next datagram it sent to its own
\* address, in the order sent (narr counts the datagrams handed over).
Deliver ==
    /\ narr < Len(net)
    /\ net[narr + 1].to = SelfAddr
    /\ Arrive([kind |-> "data", payload |-> net[narr + 1].payload])

CaptureLoop ==
    /\ ncap < MaxLoopCaptures
    /\ \E w \in Workers, data \in LoopFrames : InputCallback(w, data)

\* The engine talking to itself: one start, the target set to the engine's own
\* address, captures, the whole worker loop, and loopback delivery.
NextLoop ==
    \/ StartCheck(1)
    \/ StartSpawn(1)
    \/ SetTargetLock(1, SelfAddr)
    \/ SetTargetWrite(1)
    \/ \E w \in Workers : WorkerStep(w)
    \/ CaptureLoop
    \/ Deliver

SpecLoop == Init /\ [][NextLoop]_vars

\* Scheduling: a spawned thread keeps running (each of its steps is taken once
\* it stays enabled), and a caller that holds the lock finishes set_target.
\* Nothing obliges the audio host to call back or the network to deliver.
Fairness ==
    /\ \A w \in Workers : WF_vars(WorkerStep(w))
    /\ \A c \in Callers : WF_vars(SetTargetWrite(c))

FairSpecSeq == Init /\ [][NextSeq]_vars /\ Fairness

\* The outbound path of one caller context with both callbacks running and
\* nothing arriving on the socket, under the same scheduling.
PlaybackShort ==
    \E w \in Workers, data \in {b \in OutBuffers : Len(b) <= 1} :
        OutputCallback(w, data)

NextTarget ==
    \/ CallerStep(1)
    \/ \E w \in Workers :
          \/ SetupInput(w)
          \/ SetupOutput(w)
          \/ LoopCheck(w)
          \/ SendArmDequeue(w)
          \/ SendArmLocked(w)
          \/ SendArmDone(w)
    \/ Capture(MaxCaptures)
    \/ PlaybackShort

\* The hand-off queue between a capture callback that keeps firing and a loop
\* that may be slow: one start, no target (every dequeued buffer is dropped).
NextQueue ==
    \/ StartCheck(1)
    \/ StartSpawn(1)
    \/ \E w \in Workers :
          \/ SetupInput(w)
          \/ SetupOutput(w)
          \/ LoopCheck(w)
          \/ SendArmDequeue(w)
          \/ SendArmLocked(w)
    \/ Capture(MaxQueueCaptures)

SpecQueue == Init /\ [][NextQueue]_vars

\* Everything that runs on an engine of one caller context: the calls, the
\* worker with both arms, both callbacks, the network.
NextAll ==
    \/ NextSeq
    \/ PlaybackShort

SpecAll == Init /\ [][NextAll]_vars

\* The voice toggle of the UI, in any order, and the worker threads it starts.
NextToggle ==
    \/ \E active \in BOOLEAN : ToggleVoice(active)
    \/ \E w \in Workers :
          \/ SetupInput(w)
          \/ SetupOutput(w)
          \/ LoopCheck(w)

SpecToggle == Init /\ [][NextToggle]_vars

SpecTarget == Init /\ [][NextTarget]_vars

FairSpecTarget == Init /\ [][NextTarget]_vars /\ Fairness

\* ------------------------------------------------------------- claims
engineVars == <<is_recording, target_addr, lockq, wpc, rx, play, wdata, waddr,
                inbox, net>>

\* C1: in every reachable state at most one network-loop worker of the engine
\* is active (spawned and not yet exited). Stated as claimed; start(), stop(),
\* start() from one caller refutes it, the first worker still being alive.
C1_AtMostOneActiveWorker == Cardinality(ActiveWorkers) <= 1

\* C2: a start() issued while is_recording is true returns at its check and
\* changes nothing: it never goes on to store and spawn, and the step that
\* returns leaves the flag, the target, the lock, every worker, every queue and
\* the socket's traffic as they were, with the caller back at idle.
C2_StartWhileRunningIsNoop ==
    [][/\ is_recording =>
            \A c \in Callers : ~(cpc[c] = "idle" /\ cpc'[c] = "start_store")
       /\ ev' = "start_noop" =>
            /\ is_recording
            /\ UNCHANGED <<engineVars, cpc, carg>>]_vars

C2_Witness ==
    /\ ev = "start_noop"
    /\ Cardinality(ActiveWorkers) = 1
    /\ \E w \in Workers : wpc[w] = "select"

\* C3: start() calls not separated by a stop() spawn at most one worker between
\* them, however their steps interleave. Stated as claimed; two callers that
\* both load is_recording = false before either stores refute it.
C3_ConcurrentStartsSpawnOnce == burst <= 1

\* C4: while is_recording stays false (stop() and no later start()), a worker
\* begins at most one select arm (one dequeue for sending, or one receive), and
\* a worker that has completed an arm and stands at the head of the loop with
\* the flag false leaves the loop: it begins no further arm.
C4_AtMostOneArmAfterStop ==
    /\ [](\A w \in Workers : afterStop[w] <= 1)
    /\ [][\A w \in Workers :
            (wpc[w] = "loop" /\ wpc'[w] # "loop" /\ ~is_recording)
                => wpc'[w] = "off"]_vars

C4_Witness ==
    /\ ~is_recording
    /\ \E w \in Workers : afterStop[w] = 1 /\ wpc[w] = "off"

\* C5: once is_recording is false, either a later start() sets it again or
\* every worker eventually exits (which drops its streams), with the worker's
\* steps weakly fair and no further callback or datagram assumed. Stated as
\* claimed; a worker parked in select! with nothing to dequeue and nothing to
\* receive refutes it: it never reaches its loop check.
C5_StoppedWorkerExits ==
    (~is_recording) ~> (is_recording \/ ActiveWorkers = {})

\* C6: stop() is one step that any idle caller can take in any state (it waits
\* for nothing); the step sets is_recording to false and leaves the target, the
\* lock, the workers, the queues and the socket's traffic unchanged, so a stop()
\* on an engine whose flag is already false changes nothing at all.
C6_StopOnlyClearsFlag ==
    /\ [](\A c \in Callers : cpc[c] = "idle" => ENABLED Stop(c))
    /\ [][ev' = "stop" =>
            /\ is_recording' = FALSE
            /\ UNCHANGED <<target_addr, lockq, cpc, carg, wpc, rx, play, wdata,
                           waddr, inbox, net>>
            /\ (~is_recording => UNCHANGED engineVars)]_vars

C6_Witness ==
    /\ ev = "stop"
    /\ target_addr # None
    /\ \E w \in Workers : wpc[w] = "send"

\* The process at the head of the target lock's queue can take its next step.
HolderCanStep ==
    ENABLED (\/ \E c \in Callers : SetTargetWrite(c)
             \/ \E w \in Workers : SendArmLocked(w) \/ SendArmDone(w))

\* C7: start() never waits: an idle caller can always take the check of start
\* (when it would spawn, as long as the model has a thread slot left), and a
\* caller past the check can always store and spawn, whatever the previous
\* worker is doing; and whoever holds the target lock can always take its next
\* step, so no caller or worker waits on a lock that is never released.
C7_StartNeverBlocks ==
    /\ \A c \in Callers :
          /\ (cpc[c] = "idle" /\ (is_recording \/ SlotAvailable))
                => ENABLED StartCheck(c)
          /\ cpc[c] = "start_store" => ENABLED StartSpawn(c)
    /\ lockq # <<>> => HolderCanStep

\* A start() that followed a stop() has spawned while the previous worker is
\* still in the middle of a send.
C7_Witness ==
    /\ is_recording
    /\ burst = 1
    /\ \E w, v \in Workers : wpc[w] = "send" /\ wpc[v] = "setup_in"

\* C8: the send arm starts every send_to with the address of the set_target
\* call that returned last, and every datagram put on the wire is addressed to
\* an address that some set_target call was given before.
C8_SendUsesLastTarget ==
    [][/\ \A w \in Workers :
            (wpc[w] = "lock" /\ wpc'[w] = "send") =>
                (lastSet # None /\ waddr'[w] = lastSet)
       /\ net' # net =>
            /\ Len(net') = Len(net) + 1
            /\ SubSeq(net', 1, Len(net)) = net
            /\ net'[Len(net')].to \in everSet]_vars

\* A datagram went to addrB after the target had been addrA.
C8_Witness ==
    /\ everSet = Addrs
    /\ net # <<>>
    /\ net[Len(net)].to = "addrB"
    /\ lastSet = "addrB"

\* C9: while target_addr is None nothing has been sent; the send arm removes
\* the buffer from the hand-off queue when it dequeues it, and with the lock
\* and no target it drops the buffer, sends nothing, and goes back to the top
\* of the loop with the flag untouched.
C9_UnsetTargetDiscards ==
    /\ [](target_addr = None => net = <<>>)
    /\ [][\A w \in Workers :
            /\ (wpc[w] = "select" /\ wpc'[w] = "lock") =>
                  (wdata'[w] = Head(rx[w]) /\ rx'[w] = Tail(rx[w]))
            /\ (wpc[w] = "lock" /\ wpc'[w] # "lock" /\ target_addr = None) =>
                  /\ ev' = "discard"
                  /\ wpc'[w] = "loop"
                  /\ wdata'[w] = <<>>
                  /\ UNCHANGED <<net, rx, is_recording, target_addr>>]_vars

C9_Witness ==
    /\ ev = "discard"
    /\ is_recording
    /\ target_addr = None
    /\ net = <<>>
    /\ \E w \in Workers : wpc[w] = "loop" /\ rx[w] = <<>>

\* C10: every datagram on the wire carries the buffer of exactly one
\* input-callback invocation: its payload is 4 bytes for each of the N samples
\* that invocation was handed, the k-th group of 4 bytes being the k-th sample,
\* and no invocation's buffer is on the wire twice.
C10_OneDatagramPerCapture ==
    /\ \A i \in DOMAIN net :
          /\ net[i].id \in 1..ncap
          /\ Len(net[i].payload) = 4 * Len(net[i].samples)
          /\ \A k \in DOMAIN net[i].samples :
                FromNeBytes(SubSeq(net[i].payload, 4 * k - 3, 4 * k), endian)
                    = net[i].samples[k]
    /\ \A i, j \in DOMAIN net : net[i].id = net[j].id => i = j

\* Two captured buffers, one of them of two samples, went out as two datagrams.
C10_Witness ==
    /\ Len(net) = 2
    /\ \E i \in DOMAIN net : Len(net[i].samples) = 2 /\ Len(net[i].payload) = 8

\* A step of worker w's receive arm that took a datagram (not an error).
RecvArmTookData(w) ==
    /\ wpc[w] = "select"
    /\ wpc'[w] = "loop"
    /\ inbox # <<>>
    /\ inbox' = Tail(inbox)
    /\ Head(inbox).kind = "data"

\* C11: for an inbound datagram of L bytes the receive arm pushes exactly one
\* frame onto the playback queue, behind the frames already there; the frame
\* has floor(min(L, 4096) / 4) samples and sample i is the native-order value of
\* bytes 4i..4i+3 of the payload (here: its native-order bytes are chunk i of
\* the payload), so a trailing partial chunk and everything beyond byte 4096
\* are dropped and a payload under 4 bytes gives the empty frame.
C11_RecvDecodesChunks ==
    [][\A w \in Workers :
          RecvArmTookData(w) =>
              LET p == Head(inbox).payload
                  n == Min(Len(p), 4096) \div 4
                  f == play'[w][Len(play'[w])]
              IN  /\ Len(play'[w]) = Len(play[w]) + 1
                  /\ SubSeq(play'[w], 1, Len(play[w])) = play[w]
                  /\ Len(f) = n
                  /\ \A i \in 1..n :
                         ToNeBytes(f[i], endian) = SubSeq(p, 4 * i - 3, 4 * i)]_vars

\* A datagram longer than the buffer was cut to 1024 samples, and after it a
\* datagram shorter than one chunk gave an empty frame.
C11_Witness ==
    \E w \in Workers :
        /\ Len(play[w]) = 2
        /\ Len(play[w][1]) = 1024
        /\ play[w][2] = <<>>

\* C12: with the target set to the engine's own address, the k-th frame on the
\* playback queue is, sample for sample, the capture buffer of the k-th
\* datagram the engine sent (frames come out identical and in order),
\* whatever the frame's size, 4096 samples included.
C12_LoopbackRoundTrip ==
    \A w \in Workers :
        \A k \in 1..Len(play[w]) :
            /\ k <= Len(net)
            /\ play[w][k] = net[k].samples

\* C13: an output callback on a buffer of n samples leaves all n samples zero
\* when the playback queue is empty; otherwise it pops one frame of m samples
\* and leaves the first min(n, m) samples of the frame at the front of the
\* buffer and zero in every later position. No position keeps what the buffer
\* held before (n = 0, 1 and 4096 included).
C13_OutputCallbackFills ==
    [][ev' = "out" =>
          \E w \in Workers :
              \/ /\ play[w] = <<>>
                 /\ play' = play
                 /\ \A i \in 1..Len(outbuf') : outbuf'[i] = Zero
              \/ /\ play[w] # <<>>
                 /\ play' = [play EXCEPT ![w] = Tail(@)]
                 /\ LET m == Len(Head(play[w]))
                        n == Len(outbuf')
                    IN  /\ \A i \in 1..n :
                               outbuf'[i] = IF i <= m THEN Head(play[w])[i]
                                                     ELSE Zero]_vars

\* A frame of one sample was played into a buffer of 4096 samples.
C13_Witness ==
    /\ ev = "out"
    /\ Len(outbuf) = 4096
    /\ outbuf[1] # Zero
    /\ outbuf[2] = Zero

\* A step in which worker w's send_to returned an error.
SendFailed(w) ==
    /\ wpc[w] = "send"
    /\ wpc'[w] # "send"
    /\ net' = net

\* A step in which worker w's recv_from returned an error.
RecvFailed(w) ==
    /\ wpc[w] = "select"
    /\ wpc'[w] # "select"
    /\ inbox # <<>>
    /\ inbox' = Tail(inbox)
    /\ Head(inbox).kind = "err"

\* C14: a send or receive that fails leaves the worker at the head of its loop
\* (the loop is not left) and changes neither is_recording nor target_addr;
\* a failed receive pushes no frame onto any playback queue.
C14_SocketErrorsAreSkipped ==
    [][\A w \in Workers :
          /\ (SendFailed(w) \/ RecvFailed(w)) =>
                 /\ wpc'[w] = "loop"
                 /\ is_recording' = is_recording
                 /\ target_addr' = target_addr
          /\ RecvFailed(w) => play' = play]_vars

\* A worker is back at its loop head right after a receive error, the engine
\* still running.
C14_Witness ==
    /\ ev = "recv_err"
    /\ is_recording
    /\ \E w \in Workers : wpc[w] = "loop"

\* C15: when a device exists but its stream cannot be initialised (no valid
\* default config, build_*_stream fails, play fails), the failure is an
\* explicit result of start and no execution context is aborted: no thread of
\* the process ends in a panic.
C15_StreamFailureAbortsNothing == ev # "panic"

\* A step in which worker w returns from its setup because the host has no
\* default input (or output) device.
NoDeviceExit(w) ==
    /\ wpc[w] \in {"setup_in", "setup_out"}
    /\ wpc'[w] = "off"
    /\ ev' # "panic"

\* C16: with no input (or output) device the start that spawned the worker
\* has returned Ok and set is_recording, and the worker's return changes
\* neither: it leaves is_recording as it is, panics nowhere, sends nothing and
\* drops what the input callback handed over; a worker that is gone holds no
\* captured buffer, so none is transmitted in that mode.
C16_NoDeviceIsSilent ==
    /\ [](\A w \in Workers :
             wpc[w] = "off" =>
                 /\ rx[w] = <<>>
                 /\ wdata[w] = <<>>
                 /\ ~ ENABLED SendArmDone(w))
    /\ [][\A w \in Workers :
             NoDeviceExit(w) =>
                 /\ is_recording' = is_recording
                 /\ net' = net
                 /\ rx'[w] = <<>>
                 /\ cpc' = cpc]_vars

\* The engine is marked running, every start has returned, and the only
\* worker has just left for want of a device.
C16_Witness ==
    /\ ev = "no_device"
    /\ is_recording
    /\ ActiveWorkers = {}
    /\ \A c \in Callers : cpc[c] = "idle"

C18_DeviceListNeverEmpty ==
    /\ listed.fn = "input" =>
           /\ listed.names # <<>>
           /\ ReadableNames(host.input.devices) = <<>> =>
                  listed.names = <<"Default Input">>
    /\ listed.fn = "output" =>
           /\ listed.names # <<>>
           /\ ReadableNames(host.output.devices) = <<>> =>
                  listed.names = <<"Default Output">>

\* C19: the device-list functions can be called and complete in every state of
\* the engine, also while a worker holds the target_addr lock for a send in
\* flight after stop(); they leave is_recording, target_addr, its lock, the
\* socket, the queues and the workers as they are.
C19_DeviceListsTouchNothing ==
    /\ [](ENABLED GetInputDevices /\ ENABLED GetOutputDevices)
    /\ [][ev' = "list" => UNCHANGED <<engineVars, sock, cpc>>]_vars

\* A list was made while a worker held the lock for a send and the engine had
\* been stopped.
C19_Witness ==
    /\ ev = "list"
    /\ listed.fn = "input"
    /\ ~ is_recording
    /\ \E w \in Workers : wpc[w] = "send" /\ Head(lockq) = WId(w)

\* C20: the store holds at most one session per user_id, and a save_session(s)
\* that returned Ok left the store as it was before the call except for s: s
\* in the place of the session with its user_id if there was one, else s
\* appended; every other session and the order are as before.
C20_SaveReplacesOrAppends ==
    /\ \A i, j \in 1..Len(Stored) :
           Stored[i].user_id = Stored[j].user_id => i = j
    /\ (store.op = "save" /\ store.ok) =>
           LET s == [user_id |-> store.user_id, access_token |-> store.access_token]
               was == store.before
           IN  IF \E i \in 1..Len(was) : was[i].user_id = s.user_id
               THEN /\ Len(Stored) = Len(was)
                    /\ \A i \in 1..Len(was) :
                           Stored[i] = IF was[i].user_id = s.user_id
                                       THEN s ELSE was[i]
               ELSE Stored = Append(was, s)

\* C21: a delete_session(u) that returned Ok left the store as it was before
\* the call without the sessions of user_id u: every other session is still
\* there, in the same order (so the list is unchanged when u was not stored),
\* and no session of u is left (so a second delete_session(u) has nothing
\* more to remove).
C21_DeleteRemovesOnlyUser ==
    (store.op = "delete" /\ store.ok) =>
        LET Others(s) == s.user_id # store.user_id
        IN  /\ Stored = SelectSeq(store.before, Others)
            /\ \A i \in 1..Len(Stored) : Stored[i].user_id # store.user_id

\* Requesters of the target_addr lock that are worker threads.
WorkersInLockq == {w \in Workers : \E i \in 1..Len(lockq) : lockq[i] = WId(w)}

\* C22: set_target always completes. A caller waiting for the lock eventually
\* has written and returned; only a worker between its dequeue and the end of
\* that one send is among the lock's requesters, and the end of the send gives
\* the lock up; the input and output callbacks never touch the lock; and
\* whoever holds the lock can take its next step (nobody waits in a circle).
C22_SetTargetCompletes ==
    /\ \A c \in Callers : (cpc[c] = "set_wait") ~> (cpc[c] = "idle")
    /\ [](/\ \A w \in WorkersInLockq : wpc[w] \in {"lock", "send"}
          /\ lockq # <<>> => HolderCanStep)
    /\ [][/\ \A w \in Workers :
               (wpc[w] = "send" /\ wpc'[w] # "send") =>
                   (Head(lockq) = WId(w) /\ lockq' = Tail(lockq))
          /\ (ncap' # ncap \/ ev' = "out") => lockq' = lockq]_vars

\* A set_target call waits behind a worker that holds the lock for a send.
C22_Witness ==
    /\ cpc[1] = "set_wait"
    /\ Len(lockq) >= 2
    /\ \E w \in Workers : wpc[w] = "send" /\ Head(lockq) = WId(w)

\* C23: an output callback takes the frame at the head of one playback queue
\* and nothing else: that queue loses exactly its head when it is not empty
\* (the whole frame, whatever its length), no queue changes otherwise, and
\* every sample the callback leaves in the buffer that is not zero is the
\* sample at the same position of the frame popped by this very invocation, so
\* samples beyond the buffer size are dropped and show up in no later output.
C23_PopsOneFrameNoCarryOver ==
    [][ev' = "out" =>
          \E w \in Workers :
              /\ play' = [play EXCEPT ![w] = IF @ = <<>> THEN @ ELSE Tail(@)]
              /\ \A i \in 1..Len(outbuf') :
                     outbuf'[i] # Zero =>
                         /\ play[w] # <<>>
                         /\ i <= Len(Head(play[w]))
                         /\ outbuf'[i] = Head(play[w])[i]]_vars

\* The frame of the 8-byte datagram (two samples) was played into a buffer
\* of one sample, and the queue is empty afterwards.
C23_Witness ==
    /\ ev = "out"
    /\ Len(outbuf) = 1
    /\ outbuf[1] = BytesToSamples(PayloadOfLen(8), endian)[1]
    /\ \A w \in Workers : play[w] = <<>>

\* C24: the callbacks never wait. While its input stream exists a worker's
\* input callback can run on any buffer, whatever the length of the hand-off
\* queue, whoever holds the target_addr lock and wherever the loop is, and it
\* is one step that leaves one more buffer on that queue; while its output
\* stream exists the output callback can run too, on an empty playback queue
\* as well, and it is one step.
C24_CallbacksNeverWait ==
    /\ [](\A w \in Workers :
             /\ InputStreamLive(w) =>
                    \A data \in CaptureFrames : ENABLED InputCallback(w, data)
             /\ OutputStreamLive(w) =>
                    \A data \in {b \in OutBuffers : Len(b) <= 1} :
                        ENABLED OutputCallback(w, data))
    /\ [][/\ ncap' # ncap =>
               \E w \in Workers :
                   /\ Len(rx'[w]) = Len(rx[w]) + 1
                   /\ UNCHANGED <<wpc, lockq, cpc>>
          /\ ev' = "out" => UNCHANGED <<wpc, lockq, cpc, rx>>]_vars

\* A captured buffer waits on the hand-off queue while a set_target caller
\* holds the lock and the worker is parked in its select.
C24_Witness ==
    /\ ncap = 1
    /\ lockq # <<>>
    /\ Head(lockq) = CId(1)
    /\ \E w \in Workers : rx[w] # <<>> /\ wpc[w] = "select"

\* C25: the hand-off queue has no bound and no backpressure. At every length
\* of the queue the input callback can still run and its step puts the new
\* buffer behind all the buffers already queued, none of them dropped; so
\* with the loop stalled the queue holds as many buffers as were captured,
\* more than any bound given in advance.
C25_HandOffQueueUnbounded ==
    /\ [](\A w \in Workers :
             InputStreamLive(w) =>
                 \A data \in CaptureFrames :
                     ENABLED (/\ InputCallback(w, data)
                              /\ Len(rx'[w]) = Len(rx[w]) + 1))
    /\ [][ncap' # ncap =>
             \E w \in Workers :
                 /\ Len(rx'[w]) = Len(rx[w]) + 1
                 /\ SubSeq(rx'[w], 1, Len(rx[w])) = rx[w]
                 /\ rx'[w][Len(rx'[w])].id = ncap']_vars

\* Every buffer captured so far is still queued: the queue is as long as the
\* number of callback invocations the model allows.
C25_Witness ==
    \E w \in Workers : Len(rx[w]) = MaxQueueCaptures

\* C26: whenever is_recording is true a worker of the engine is active (being
\* set up or in its loop): the flag does not stay true once the worker that
\* start spawned has gone, so the engine is never marked running with no
\* worker and every further start a no-op.
C26_RunningHasWorker == is_recording => ActiveWorkers # {}

\* Worker w holds a dequeued buffer (it is in its send arm).
InSendArm(w) == wpc[w] \in {"lock", "send"}

\* C27: a worker's iteration handles one event. Leaving the select it has
\* either taken the oldest buffer off its hand-off queue, with the socket's
\* pending datagrams untouched, or taken the oldest pending datagram, with its
\* hand-off queue untouched: the event that did not win stays where it was.
\* Buffers wait in capture order, the buffer a worker is sending was captured
\* before every buffer still queued, and a buffer that went out is on no
\* queue any more (it is dequeued once).
C27_OneEventPerIteration ==
    /\ [](\A w \in Workers :
             /\ \A i, j \in 1..Len(rx[w]) :
                    i < j => rx[w][i].id < rx[w][j].id
             /\ InSendArm(w) =>
                    /\ \A i \in 1..Len(rx[w]) : wdata[w].id < rx[w][i].id
                    /\ \A k \in 1..Len(net) : net[k].id # wdata[w].id
             /\ \A i \in 1..Len(rx[w]), k \in 1..Len(net) :
                    net[k].id # rx[w][i].id)
    /\ [](\A j, k \in 1..Len(net) : j < k => net[j].id < net[k].id)
    /\ [][\A w \in Workers :
             (wpc[w] = "select" /\ wpc'[w] # "select") =>
                 \/ /\ rx[w] # <<>>
                    /\ wdata'[w] = Head(rx[w])
                    /\ rx'[w] = Tail(rx[w])
                    /\ inbox' = inbox
                 \/ /\ inbox # <<>>
                    /\ inbox' = Tail(inbox)
                    /\ rx'[w] = rx[w]]_vars

\* A worker is in its select with a captured buffer queued and a datagram
\* pending, after an earlier iteration has sent the first buffer.
C27_Witness ==
    /\ Len(net) = 1
    /\ inbox # <<>>
    /\ \E w \in Workers : wpc[w] = "select" /\ rx[w] # <<>>

\* C28: target_addr changes only in the step in which a set_target call
\* writes its argument; start, stop, the worker's loop and both callbacks
\* leave it as it is. So a target once set is never None again, and a worker
\* spawned by a later start sends to the target set before the stop.
C28_OnlySetTargetWrites ==
    /\ [][target_addr' # target_addr =>
             \E c \in Callers :
                 /\ cpc[c] = "set_wait"
                 /\ cpc'[c] = "idle"
                 /\ target_addr' = carg[c]]_vars
    /\ [][target_addr # None => target_addr' # None]_vars
    /\ [](lastSet # None => target_addr = lastSet)

\* The worker of a second start sends to the target that is set, the first
\* worker gone after the stop in between.
C28_Witness ==
    /\ is_recording
    /\ wpc[1] = "off"
    /\ wpc[2] = "send"
    /\ target_addr # None
    /\ waddr[2] = target_addr

\* The rows of the user list that are the entry "You".
YouRows == {i \in 1..Len(voice_users) : voice_users[i] = "You"}

\* C29: after any sequence of voice toggles the user list holds "You" at most
\* once, and holds it exactly when the last toggle was active = true (which
\* is when is_recording is true: the handler starts on true and stops on
\* false); the users that were listed before are all still listed (a toggle
\* with active = false removes nothing but "You").
C29_YouListedIffActive ==
    /\ Cardinality(YouRows) <= 1
    /\ is_recording <=> YouRows # {}
    /\ \A i \in 1..Len(InitialVoiceUsers) :
           \E j \in 1..Len(voice_users) : voice_users[j] = InitialVoiceUsers[i]

====
